---- MODULE Spec2Model ----
(***************************************************************************)
(* A model of the kct_package compilation engine:                          *)
(*   - crates/kct_package/src/compiler.rs   Workspace, Compiler, compile   *)
(*   - crates/kct_package/src/functions/file.rs   the File function        *)
(*   - crates/kct_package/src/lib.rs        Package, validate_input        *)
(* Five specifications share the module, one per part of the program:      *)
(*   Spec           a Compiler: prop, extension, validator, then compile   *)
(*   SpecWorkspace  WorkspaceBuilder setters, then Compiler::try_from      *)
(*   SpecResolve  the import resolver chain installed by create_state      *)
(*   SpecFile     the File function's handler over a files directory       *)
(*   SpecPackage  Package::try_from and Package::compile                   *)
(***************************************************************************)
EXTENDS Naturals, Sequences, FiniteSets, TLC

VARIABLES
    \* ---- Spec, SpecWorkspace: compiler.rs
    pc,          \* "builder" | "configured" | "build_failed" | "done"
    builder,     \* WorkspaceBuilder: each field an Option (<<>> or <<path>>)
    workspace,   \* Compiler.workspace: Option of a Workspace record
    properties,  \* Compiler.properties: HashMap as a set of <<name, generator>>
    extensions,  \* Compiler.extensions: HashMap as a set of <<name, generator>>
    validators,  \* Compiler.validators: Vec of validators (each by its verdict)
    lastOp,      \* the call that produced this state, with its arguments
    log,         \* what compile() invoked, in order
    ext_vars,    \* the evaluator's external variables: a set of <<name, Val>>
    result,      \* what try_from / compile returned
    \* ---- SpecResolve: the resolver chain
    disk,        \* the files that exist on disk (a set of paths)
    resolved,    \* the last import's request and what the chain returned
    \* ---- SpecFile: functions/file.rs
    fpc,         \* "setup" | "generated"
    filesDir,    \* whether <root>/files exists
    files,       \* the files under <root>/files: a set of [name, state]
    walkFails,   \* whether traversing <root>/files raises an I/O error
    runtimeInput, \* the runtime's Output under Name::Input, if any
    captured,    \* the Input value File::generate captured in its closure
    fileCall,    \* the last handler call: its arguments and the iteration order
    fileResult,  \* what that call returned
    \* ---- SpecPackage: lib.rs
    ppc,         \* "dir" | "package" | "load_failed" | "compiled"
    pkgDir,      \* what the package directory holds
    package,     \* the Package built from it
    pkgCall,     \* the input handed to Package::compile
    engine,      \* whether compile::compile was reached, and with which Input
    pkgResult    \* what try_from / compile returned

cvars == <<pc, builder, workspace, properties, extensions, validators, lastOp,
           log, ext_vars, result>>
rvars == <<disk, resolved>>
fvars == <<fpc, filesDir, files, walkFails, runtimeInput, captured, fileCall,
           fileResult>>
pvars == <<ppc, pkgDir, package, pkgCall, engine, pkgResult>>
vars == <<cvars, rvars, fvars, pvars>>

\* ------------------------------------------------------------------ bounds
\* How many validators a Compiler is given at most.
MaxValidators == 2
\* How many distinct implementations of a property there are.
NumProps == 2
\* How many files <root>/files holds at most.
MaxFiles == 3

\* ------------------------------------------------------------- Option, paths
None == <<>>
Some(x) == <<x>>
IsSome(o) == o # None
Unwrap(o) == o[1]

\* A path is the sequence of its components; PathBuf::push of a relative
\* component appends it.
push(path, component) == Append(path, component)

VARS_PREFIX == "kct.io"

Roots == {<<"pkg">>, <<"home", "pkg">>, <<>>}
Libs == {<<"custom", "lib">>, <<"shared">>}
Vendors == {<<"custom", "vendor">>, <<"shared">>}
Entrypoint == <<"pkg", "templates", "main.jsonnet">>

\* ------------------------------------------------------------ the registries
PropertyNames == <<"package", "release", "input">>
ExtensionNames == <<"include", "file">>
PropertyGens == 1..NumProps
\* An extension implementation, by whether its generate builds a Compilation
\* from the compiler it is handed (Compilation::from(compiler)).
ExtensionGens == {"plain", "snapshot"}

\* property::Name::as_str and extension::Name::as_str
as_str(name) == name

Range(s) == {s[i] : i \in 1..Len(s)}

\* HashMap::insert: the entry of the key is replaced.
insert_append(map, key, value) == map \cup {<<key, value>>}
insert(map, key, value) == {e \in map : e[1] # key} \cup {<<key, value>>}

\* HashMap::get
get(map, key) ==
    IF \E e \in map : e[1] = key
    THEN Some((CHOOSE e \in map : e[1] = key)[2])
    ELSE None

\* ------------------------------------------------------- Workspace building
EmptyBuilder == [root |-> None, entrypoint |-> None, lib |-> None, vendor |-> None]

default_lib(root) == push(root, "lib")
default_vendor(root) == push(root, "vendor")

\* Compiler::setup: the defaulting pass.
setup_overwrite(b) ==
    IF b.root = None THEN b
    ELSE [b EXCEPT !.lib = Some(default_lib(Unwrap(b.root))),
                   !.vendor = Some(default_vendor(Unwrap(b.root)))]
setup(b) ==
    IF b.root = None THEN b
    ELSE LET b1 == IF b.lib = None
                   THEN [b EXCEPT !.lib = Some(default_lib(Unwrap(b.root)))]
                   ELSE b
         IN IF b1.vendor = None
            THEN [b1 EXCEPT !.vendor = Some(default_vendor(Unwrap(b.root)))]
            ELSE b1

\* WorkspaceBuilder::build (derive_builder): every field must be set.
build(b) ==
    IF b.root = None \/ b.entrypoint = None \/ b.lib = None \/ b.vendor = None
    THEN None
    ELSE Some([root |-> Unwrap(b.root), entrypoint |-> Unwrap(b.entrypoint),
               lib |-> Unwrap(b.lib), vendor |-> Unwrap(b.vendor)])

Ok(v) == [kind |-> "Ok", error |-> "", message |-> "", value |-> v]
Err(e, m) == [kind |-> "Err", error |-> e, message |-> m, value |-> ""]
NoResult == [kind |-> "None", error |-> "", message |-> "", value |-> ""]

\* replaced: whether HashMap::insert found the key (it returns the old value).
Op(op, name, gen, ext, replaced) ==
    [op |-> op, name |-> name, gen |-> gen, ext |-> ext, replaced |-> replaced]

\* ------------------------------------------------------------------ compile
Event(ev, name, idx, ok) == [ev |-> ev, name |-> name, idx |-> idx, ok |-> ok]

\* compile's validator loop: every validator in registration order, returning
\* at the first false.
RECURSIVE run_validators_all(_, _)
run_validators_all(vs, i) ==
    IF i > Len(vs) THEN [ok |-> TRUE, log |-> <<>>]
    ELSE LET rest == run_validators_all(vs, i + 1)
         IN [ok |-> vs[i] /\ rest.ok,
             log |-> <<Event("validator", "", i, vs[i])>> \o rest.log]
RECURSIVE run_validators(_, _)
run_validators(vs, i) ==
    IF i > Len(vs) THEN [ok |-> TRUE, log |-> <<>>]
    ELSE IF ~vs[i] THEN [ok |-> FALSE, log |-> <<Event("validator", "", i, FALSE)>>]
    ELSE LET rest == run_validators(vs, i + 1)
         IN [ok |-> rest.ok,
             log |-> <<Event("validator", "", i, TRUE)>> \o rest.log]

ValNull == [kind |-> "null", gen |-> 0, ext |-> ""]
ValPlain(g) == [kind |-> "plain", gen |-> g, ext |-> ""]
ValFunc(e) == [kind |-> "func", gen |-> 0, ext |-> e]

Snapshots(e) == e = "snapshot"

\* Compilation::from(&Compiler): get_prop of package, input, release, each
\* calling the registered property's generate.
CompilationFrom(props) ==
    LET get_prop(p) == IF get(props, p) = None THEN <<>>
                       ELSE <<Event("generate", p, Unwrap(get(props, p)), TRUE)>>
    IN get_prop("package") \o get_prop("input") \o get_prop("release")

\* create_ext_vars' from_prop closure: [log, entry]
from_prop_skip(props, p) ==
    LET property == get(props, p)
    IN IF property = None
       THEN [log |-> <<>>, entry |-> <<>>]
       ELSE [log |-> <<Event("generate", p, Unwrap(property), TRUE)>>,
             entry |-> <<<<as_str(p), ValPlain(Unwrap(property))>>>>]
from_prop(props, p) ==
    LET property == get(props, p)
    IN IF property = None
       THEN [log |-> <<>>, entry |-> <<<<as_str(p), ValNull>>>>]
       ELSE [log |-> <<Event("generate", p, Unwrap(property), TRUE)>>,
             entry |-> <<<<as_str(p), ValPlain(Unwrap(property))>>>>]

\* create_ext_vars' from_ext closure: [log, entry]
from_ext(props, exts, e) ==
    LET ext == get(exts, e)
    IN IF ext = None
       THEN [log |-> <<>>, entry |-> <<<<as_str(e), ValNull>>>>]
       ELSE [log |-> <<Event("ext_generate", e, 0, TRUE)>>
                       \o (IF Snapshots(Unwrap(ext)) THEN CompilationFrom(props)
                           ELSE <<>>),
             entry |-> <<<<as_str(e), ValFunc(Unwrap(ext))>>>>]

RECURSIVE collect(_, _)
collect(entries, map) ==
    IF entries = <<>> THEN map
    ELSE collect(Tail(entries), insert(map, Head(entries)[1], Head(entries)[2]))

\* create_ext_vars: the vec of the five pairs, collected into a HashMap.
create_ext_vars(props, exts) ==
    LET a == from_prop(props, "package")
        b == from_prop(props, "release")
        c == from_prop(props, "input")
        d == from_ext(props, exts, "include")
        e == from_ext(props, exts, "file")
    IN [log |-> a.log \o b.log \o c.log \o d.log \o e.log,
        map |-> collect(a.entry \o b.entry \o c.entry \o d.entry \o e.entry, {})]

\* compile's loop over the variables: state.add_ext_var("kct.io/<name>", value)
add_ext_vars(variables) ==
    {<<VARS_PREFIX \o "/" \o v[1], v[2]>> : v \in variables}

\* compile's render_issue closure: the error an evaluator failure becomes.
render_issue_as_output(err) == Err("InvalidOutput", "")
render_issue(err) ==
    Err("RenderIssue", IF err = "ImportSyntaxError" THEN "syntax error at" ELSE err)

\* What the evaluator, a black box, answers in one compile.
EvaluatorRun(evaluate, manifest, parse) ==
    [evaluate |-> evaluate, manifest |-> manifest, parse |-> parse]
EvaluatorRuns ==
    {EvaluatorRun("ImportSyntaxError", "ok", TRUE),
     EvaluatorRun("RuntimeError", "ok", TRUE),
     EvaluatorRun("ok", "ManifestError", TRUE),
     EvaluatorRun("ok", "ok", FALSE),
     EvaluatorRun("ok", "ok", TRUE)}

\* Compiler::compile: [log, ext_vars, result]
compile_run(vs, props, exts, ev) ==
    LET v == run_validators(vs, 1)
        x == create_ext_vars(props, exts)
        bound == add_ext_vars(x.map)
        l2 == v.log \o <<Event("create_state", "", 0, TRUE)>> \o x.log
        l3 == l2 \o <<Event("evaluate", "", 0, ev.evaluate = "ok")>>
        l4 == l3 \o <<Event("manifest", "", 0, ev.manifest = "ok")>>
        l5 == l4 \o <<Event("parse", "", 0, ev.parse)>>
    IN IF ~v.ok
       THEN [log |-> v.log, ext_vars |-> {}, result |-> Err("InvalidInput", "")]
       ELSE IF ev.evaluate # "ok"
       THEN [log |-> l3, ext_vars |-> bound, result |-> render_issue(ev.evaluate)]
       ELSE IF ev.manifest # "ok"
       THEN [log |-> l4, ext_vars |-> bound, result |-> render_issue(ev.manifest)]
       ELSE IF ~ev.parse
       THEN [log |-> l5, ext_vars |-> bound, result |-> Err("InvalidOutput", "")]
       ELSE [log |-> l5, ext_vars |-> bound, result |-> Ok("json")]

\* ------------------------------------------------------------ Spec: actions
\* WorkspaceBuilder setters (derive_builder, pattern = "owned").
set_root ==
    /\ pc = "builder"
    /\ \E p \in Roots : builder' = [builder EXCEPT !.root = Some(p)]
    /\ UNCHANGED <<pc, workspace, properties, extensions, validators, lastOp, log,
                   ext_vars, result>>
    /\ UNCHANGED <<rvars, fvars, pvars>>

set_entrypoint ==
    /\ pc = "builder"
    /\ builder' = [builder EXCEPT !.entrypoint = Some(Entrypoint)]
    /\ UNCHANGED <<pc, workspace, properties, extensions, validators, lastOp, log,
                   ext_vars, result>>
    /\ UNCHANGED <<rvars, fvars, pvars>>

set_lib ==
    /\ pc = "builder"
    /\ \E p \in Libs : builder' = [builder EXCEPT !.lib = Some(p)]
    /\ UNCHANGED <<pc, workspace, properties, extensions, validators, lastOp, log,
                   ext_vars, result>>
    /\ UNCHANGED <<rvars, fvars, pvars>>

set_vendor ==
    /\ pc = "builder"
    /\ \E p \in Vendors : builder' = [builder EXCEPT !.vendor = Some(p)]
    /\ UNCHANGED <<pc, workspace, properties, extensions, validators, lastOp, log,
                   ext_vars, result>>
    /\ UNCHANGED <<rvars, fvars, pvars>>

\* Compiler::try_from(builder)
try_from ==
    /\ pc = "builder"
    /\ LET built == build(setup(builder))
       IN IF built = None
          THEN /\ pc' = "build_failed"
               /\ result' = Err("InvalidInput", "")
               /\ UNCHANGED workspace
          ELSE /\ pc' = "configured"
               /\ workspace' = built
               /\ UNCHANGED result
    /\ UNCHANGED <<builder, properties, extensions, validators, lastOp, log, ext_vars>>
    /\ UNCHANGED <<rvars, fvars, pvars>>

\* Compiler::prop
prop ==
    /\ pc = "configured"
    /\ \E n \in Range(PropertyNames), g \in PropertyGens :
          /\ properties' = insert(properties, n, g)
          /\ lastOp' = Op("prop", n, g, "", get(properties, n) # None)
    /\ UNCHANGED <<pc, builder, workspace, extensions, validators, log,
                   ext_vars, result>>
    /\ UNCHANGED <<rvars, fvars, pvars>>

\* Compiler::extension
extension ==
    /\ pc = "configured"
    /\ \E n \in Range(ExtensionNames), e \in ExtensionGens :
          /\ extensions' = insert(extensions, n, e)
          /\ lastOp' = Op("extension", n, 0, e, get(extensions, n) # None)
    /\ UNCHANGED <<pc, builder, workspace, properties, validators, log,
                   ext_vars, result>>
    /\ UNCHANGED <<rvars, fvars, pvars>>

\* Compiler::validator
validator ==
    /\ pc = "configured"
    /\ Len(validators) < MaxValidators
    /\ \E verdict \in BOOLEAN : validators' = Append(validators, verdict)
    /\ lastOp' = Op("validator", "", 0, "", FALSE)
    /\ UNCHANGED <<pc, builder, workspace, properties, extensions, log,
                   ext_vars, result>>
    /\ UNCHANGED <<rvars, fvars, pvars>>

\* Compiler::compile
compile ==
    /\ pc = "configured"
    /\ \E ev \in EvaluatorRuns :
          LET run == compile_run(validators, properties, extensions, ev)
          IN /\ log' = run.log
             /\ ext_vars' = run.ext_vars
             /\ result' = run.result
    /\ pc' = "done"
    /\ lastOp' = Op("compile", "", 0, "", FALSE)
    /\ UNCHANGED <<builder, workspace, properties, extensions, validators>>
    /\ UNCHANGED <<rvars, fvars, pvars>>

\* The workspace of a builder given only root and entrypoint.
DefaultWorkspace ==
    build(setup([EmptyBuilder EXCEPT !.root = Some(<<"pkg">>),
                                     !.entrypoint = Some(Entrypoint)]))

\* A WorkspaceBuilder::default() in hand.
InitW ==
    /\ pc = "builder"
    /\ builder = EmptyBuilder
    /\ workspace = None
    /\ properties = {}
    /\ extensions = {}
    /\ validators = <<>>
    /\ lastOp = Op("new", "", 0, "", FALSE)
    /\ log = <<>>
    /\ ext_vars = {}
    /\ result = NoResult

\* A Compiler just built by try_from.
InitC ==
    /\ pc = "configured"
    /\ builder = EmptyBuilder
    /\ workspace = DefaultWorkspace
    /\ properties = {}
    /\ extensions = {}
    /\ validators = <<>>
    /\ lastOp = Op("new", "", 0, "", FALSE)
    /\ log = <<>>
    /\ ext_vars = {}
    /\ result = NoResult

\* ------------------------------------------------------ the resolver chain
\* The workspace the resolver chain is installed for: only root and
\* entrypoint given, lib and vendor defaulted.
ResolveWorkspace == Unwrap(DefaultWorkspace)

Resolver(type, path, library_paths) ==
    [type |-> type, path |-> path, library_paths |-> library_paths]

\* create_state: library_paths: vec![vendor, lib]
library_paths_lib_first(ws) == <<ws.lib, ws.vendor>>
library_paths(ws) == <<ws.vendor, ws.lib>>

\* create_state: the chain pushed onto AggregatedImportResolver::default()
import_resolver_relative_first(ws) ==
    <<Resolver("relative", <<>>, <<>>),
      Resolver("static", <<VARS_PREFIX>>, <<>>),
      Resolver("lib", <<>>, library_paths(ws))>>
import_resolver(ws) ==
    <<Resolver("static", <<VARS_PREFIX>>, <<>>),
      Resolver("relative", <<>>, <<>>),
      Resolver("lib", <<>>, library_paths(ws))>>

\* What a resolver answers: the resolved path and whose content it is.
Declined == [found |-> FALSE, path |-> <<>>, embedded |-> FALSE]
Found(path, embedded) == [found |-> TRUE, path |-> path, embedded |-> embedded]

parent(path) == SubSeq(path, 1, Len(path) - 1)

\* StaticImportResolver: the import compared with the one virtual path.
static_resolve(r, import) ==
    IF import = r.path THEN Found(r.path, TRUE) ELSE Declined

\* RelativeImportResolver: the importer's directory joined with the import.
relative_resolve(fs, from, import) ==
    IF (parent(from) \o import) \in fs
    THEN Found(parent(from) \o import, FALSE)
    ELSE Declined

\* LibImportResolver: each library root in order, first existing match.
RECURSIVE lib_resolve(_, _, _)
lib_resolve(fs, roots, import) ==
    IF roots = <<>> THEN Declined
    ELSE IF (Head(roots) \o import) \in fs
    THEN Found(Head(roots) \o import, FALSE)
    ELSE lib_resolve(fs, Tail(roots), import)

resolve_one(r, fs, from, import) ==
    IF r.type = "static" THEN static_resolve(r, import)
    ELSE IF r.type = "relative" THEN relative_resolve(fs, from, import)
    ELSE lib_resolve(fs, r.library_paths, import)

\* AggregatedImportResolver: the members in order, first success.
RECURSIVE aggregated_resolve(_, _, _, _)
aggregated_resolve(chain, fs, from, import) ==
    IF chain = <<>> THEN Declined
    ELSE LET answer == resolve_one(Head(chain), fs, from, import)
         IN IF answer.found THEN answer
            ELSE aggregated_resolve(Tail(chain), fs, from, import)

\* The files that import, and what they import.
Importers == {Entrypoint, <<"pkg", "vendor", "dep", "main.libsonnet">>}
Imports == {<<VARS_PREFIX>>, <<"util.libsonnet">>}
ImportDirs == {parent(f) : f \in Importers}
                 \cup Range(library_paths(ResolveWorkspace))
DiskFiles == {d \o i : d \in ImportDirs, i \in Imports}

NoImport == [from |-> <<>>, import |-> <<>>, answer |-> Declined]

\* The package's files are laid out before the evaluation starts.
write_file ==
    /\ resolved = NoImport
    /\ \E f \in DiskFiles \ disk : disk' = disk \cup {f}
    /\ UNCHANGED resolved
    /\ UNCHANGED <<cvars, fvars, pvars>>

\* The evaluator meets an import and asks the installed chain.
resolve_import ==
    /\ \E from \in Importers, import \in Imports :
          resolved' = [from |-> from, import |-> import,
                       answer |-> aggregated_resolve(
                           import_resolver(ResolveWorkspace), disk, from, import)]
    /\ UNCHANGED disk
    /\ UNCHANGED <<cvars, fvars, pvars>>

InitR ==
    /\ disk = {}
    /\ resolved = NoImport

\* ------------------------------------------------------- the File function
\* A path component is the sequence of its characters' codes (a = 1, b = 2,
\* ...); a path is the sequence of its components.
FileRoot == <<<<16, 11, 7>>>>
TEMPLATES_FOLDER == <<6, 9, 12, 5, 19>>
FileNames == {<<1>>, <<1, 1>>, <<1, 2>>, <<2>>}

\* Ord for OsStr: bytewise lexicographic.
RECURSIVE component_less(_, _)
component_less(a, b) ==
    IF b = <<>> THEN FALSE
    ELSE IF a = <<>> THEN TRUE
    ELSE IF Head(a) # Head(b) THEN Head(a) < Head(b)
    ELSE component_less(Tail(a), Tail(b))

\* Ord for Path: lexicographic over the components.
RECURSIVE path_less(_, _)
path_less(p, q) ==
    IF q = <<>> THEN FALSE
    ELSE IF p = <<>> THEN TRUE
    ELSE IF Head(p) # Head(q) THEN component_less(Head(p), Head(q))
    ELSE path_less(Tail(p), Tail(q))

\* paths.sort()
RECURSIVE sort_insert(_, _)
sort_insert(sorted, p) ==
    IF sorted = <<>> THEN <<p>>
    ELSE IF path_less(p, Head(sorted)) THEN <<p>> \o sorted
    ELSE <<Head(sorted)>> \o sort_insert(Tail(sorted), p)
sort_unsorted(paths) == paths
RECURSIVE sort_paths(_)
sort_paths(paths) ==
    IF paths = <<>> THEN <<>>
    ELSE sort_insert(sort_paths(SubSeq(paths, 1, Len(paths) - 1)), paths[Len(paths)])

\* A glob: a literal prefix, then a star or nothing; or a malformed pattern.
Glob(prefix, star, valid) == [prefix |-> prefix, star |-> star, valid |-> valid]
Globs == {Glob(<<>>, TRUE, TRUE), Glob(<<1>>, TRUE, TRUE), Glob(<<2>>, FALSE, TRUE),
          Glob(<<3>>, TRUE, TRUE), Glob(<<>>, FALSE, FALSE)}

\* Whether the glob matches the file of this name (GlobWalker).
glob_match(g, name) ==
    IF g.star
    THEN Len(g.prefix) <= Len(name) /\ SubSeq(name, 1, Len(g.prefix)) = g.prefix
    ELSE name = g.prefix

\* JSON values by their shape.
Objects == {"object1", "object2"}
Values == {"null", "array", "string", "number"} \cup Objects
is_object(v) == v \in Objects

\* The runtime's Output under Name::Input: none, a Callback, or Plain(value).
Output(kind, value) == [kind |-> kind, value |-> value]
NoOutput == Output("none", "null")
InputOutputs == {Output("callback", "null")} \cup {Output("plain", v) : v \in Values}

\* File::generate: the Input the closure captures.
captured_input(out) == IF out.kind = "plain" THEN out.value ELSE "null"

\* What a handler call gives: a JSON string, a JSON array, an error string
\* or a panic of the host.
FileOut(kind, items, msg, glob) ==
    [kind |-> kind, items |-> items, msg |-> msg, glob |-> glob]
FileErr(msg, glob) == FileOut("error", <<>>, msg, glob)
Panic == FileOut("panic", <<>>, "called Result::unwrap() on an Err value", None)
NoFileOut == FileOut("none", <<>>, "", None)

templates_dir == push(FileRoot, TEMPLATES_FOLDER)
file_state(fs, path) == (CHOOSE f \in fs : push(templates_dir, f.name) = path).state

\* compile_template(root, glob, input), the directory iteration yielding the
\* matched entries in the order entries: Ok(compiled), Err(message) or a panic.
compile_template(dir, fs, walk_fails, glob, input, entries) ==
    LET paths == sort_paths(entries)
    IN IF ~dir THEN FileErr("No files folder to search for templates", None)
       ELSE IF ~glob.valid THEN FileErr("Invalid glob provided", Some(glob))
       ELSE IF walk_fails THEN FileErr("Unable to resolve globs", None)
       ELSE IF \E i \in 1..Len(paths) : file_state(fs, paths[i]) = "unreadable"
       THEN FileErr("Unable to read templates", None)
       ELSE IF input # "null" /\ ~is_object(input) THEN Panic
       ELSE IF \E i \in 1..Len(paths) : file_state(fs, paths[i]) = "bad_template"
       THEN FileErr("Unable to compile templates", None)
       ELSE FileOut("ok", [i \in 1..Len(paths) |-> <<"rendered", paths[i], input>>],
                    "", None)

\* The arguments of a call: name missing, name not a string, name a glob.
Arg(present, string, glob) == [present |-> present, string |-> string, glob |-> glob]
Args == {Arg(FALSE, FALSE, Glob(<<>>, FALSE, FALSE)),
         Arg(TRUE, FALSE, Glob(<<>>, FALSE, FALSE))}
           \cup {Arg(TRUE, TRUE, g) : g \in Globs}

\* The handler File::generate returns.
handler_always_array(dir, fs, walk_fails, input, params, entries) ==
    LET compiled == compile_template(dir, fs, walk_fails, params.glob, input, entries)
    IN IF compiled.kind # "ok" THEN compiled
       ELSE FileOut("array", compiled.items, "", None)
handler(dir, fs, walk_fails, input, params, entries) ==
    IF ~params.present THEN FileErr("name is required", None)
    ELSE IF ~params.string THEN FileErr("name should be a string", None)
    ELSE LET compiled == compile_template(dir, fs, walk_fails, params.glob, input,
                                          entries)
         IN IF compiled.kind # "ok" THEN compiled
            ELSE IF Len(compiled.items) = 0
            THEN FileErr("No template found for glob", Some(params.glob))
            ELSE IF Len(compiled.items) = 1
            THEN FileOut("string", compiled.items, "", None)
            ELSE FileOut("array", compiled.items, "", None)

\* The files the glob matches, and the orders an iteration can yield them in.
Matched(dir, fs, walk_fails, g) ==
    IF dir /\ g.valid /\ ~walk_fails
    THEN {push(templates_dir, f.name) : f \in {x \in fs : glob_match(g, x.name)}}
    ELSE {}
Orders(S) ==
    {s \in [1..Cardinality(S) -> S] : \A i, j \in 1..Cardinality(S) : i # j => s[i] # s[j]}

NoCall == [params |-> Arg(FALSE, FALSE, Glob(<<>>, FALSE, FALSE)), entries |-> <<>>]

\* ---- the files directory of the package, laid out before the compile
create_files_dir ==
    /\ fpc = "setup" /\ ~filesDir
    /\ filesDir' = TRUE
    /\ UNCHANGED <<fpc, files, walkFails, runtimeInput, captured, fileCall, fileResult>>
    /\ UNCHANGED <<cvars, rvars, pvars>>

write_template ==
    /\ fpc = "setup" /\ Cardinality(files) < MaxFiles
    /\ \E n \in FileNames, s \in {"ok", "unreadable", "bad_template"} :
          /\ \A f \in files : f.name # n
          /\ files' = files \cup {[name |-> n, state |-> s]}
    /\ filesDir' = TRUE
    /\ UNCHANGED <<fpc, walkFails, runtimeInput, captured, fileCall, fileResult>>
    /\ UNCHANGED <<cvars, rvars, pvars>>

break_traversal ==
    /\ fpc = "setup" /\ filesDir /\ ~walkFails
    /\ walkFails' = TRUE
    /\ UNCHANGED <<fpc, filesDir, files, runtimeInput, captured, fileCall, fileResult>>
    /\ UNCHANGED <<cvars, rvars, pvars>>

\* The runtime is given an Output under Name::Input.
set_input ==
    /\ fpc = "setup" /\ runtimeInput = NoOutput
    /\ \E out \in InputOutputs : runtimeInput' = out
    /\ UNCHANGED <<fpc, filesDir, files, walkFails, captured, fileCall, fileResult>>
    /\ UNCHANGED <<cvars, rvars, pvars>>

\* File::generate(runtime)
generate ==
    /\ fpc = "setup"
    /\ captured' = captured_input(runtimeInput)
    /\ fpc' = "generated"
    /\ UNCHANGED <<filesDir, files, walkFails, runtimeInput, fileCall, fileResult>>
    /\ UNCHANGED <<cvars, rvars, pvars>>

\* The template calls the function.
call_handler ==
    /\ fpc = "generated"
    /\ \E params \in Args :
       \E entries \in Orders(Matched(filesDir, files, walkFails, params.glob)) :
          /\ fileCall' = [params |-> params, entries |-> entries]
          /\ fileResult' = handler(filesDir, files, walkFails, captured, params, entries)
    /\ UNCHANGED <<fpc, filesDir, files, walkFails, runtimeInput, captured>>
    /\ UNCHANGED <<cvars, rvars, pvars>>

InitF ==
    /\ fpc = "setup"
    /\ filesDir = FALSE
    /\ files = {}
    /\ walkFails = FALSE
    /\ runtimeInput = NoOutput
    /\ captured = "null"
    /\ fileCall = NoCall
    /\ fileResult = NoFileOut

\* ---------------------------------------------------------------- Package
\* A schema is the set of the values it accepts (the oracle schema.validate).
Schemas == {{"object1"}, {"object1", "object2", "array"}, Values}
SchemaFile(state, accepts) == [state |-> state, accepts |-> accepts]
SchemaFiles ==
    {SchemaFile("missing", {}), SchemaFile("invalid", {})}
        \cup {SchemaFile("ok", s) : s \in Schemas}
schema_validate(schema, input) == input \in schema

\* validate_input(schema, input): "" for Ok(()), or the error.
validate_input_any_shape(schema, input) ==
    IF schema = None /\ input = None THEN ""
    ELSE IF schema = None THEN "NoSchema"
    ELSE IF input = None THEN "NoInput"
    ELSE IF schema_validate(Unwrap(schema), Unwrap(input)) THEN ""
    ELSE "InvalidInput"
validate_input(schema, input) ==
    IF schema = None /\ input = None THEN ""
    ELSE IF schema = None THEN "NoSchema"
    ELSE IF input = None THEN "NoInput"
    ELSE IF is_object(Unwrap(input)) /\ schema_validate(Unwrap(schema), Unwrap(input))
    THEN ""
    ELSE "InvalidInput"

\* What a package root holds: a directory or an archive, and the four files.
PackageDirs ==
    [archive : {"none", "ok", "broken"},
     spec : {"missing", "invalid", "ok"},
     schema : SchemaFiles,
     example : {"missing", "invalid"} \cup Values,
     main : BOOLEAN]

NoPackage == [schema |-> None, example |-> None]

\* Package::try_from(root): [error, package]
package_try_from(dir) ==
    LET schema == IF dir.schema.state = "ok" THEN Some(dir.schema.accepts) ELSE None
        example == IF dir.example \in Values THEN Some(dir.example) ELSE None
        checked == validate_input(schema, example)
        fail(e) == [error |-> e, package |-> NoPackage]
    IN IF dir.archive = "broken" THEN fail("InvalidFormat")
       ELSE IF dir.spec = "missing" THEN fail("NoSpec")
       ELSE IF dir.spec = "invalid" THEN fail("InvalidSpec")
       ELSE IF dir.schema.state = "invalid" THEN fail("InvalidSchema")
       ELSE IF dir.example = "invalid" THEN fail("InvalidExample")
       ELSE IF ~dir.main THEN fail("NoMain")
       ELSE IF checked = "InvalidInput" THEN fail("InvalidExample")
       ELSE IF checked = "NoInput" THEN fail("NoExample")
       ELSE IF checked # "" THEN fail(checked)
       ELSE [error |-> "", package |-> [schema |-> schema, example |-> example]]

\* What compile::compile, the engine, answers.
EngineResults ==
    {Ok("json"), Err("InvalidInput", ""), Err("RenderIssue", "RuntimeError"),
     Err("InvalidOutput", "")}
NotReached == [reached |-> FALSE, input |-> "null"]

\* Package::try_from(root)
load_package ==
    /\ ppc = "dir"
    /\ LET r == package_try_from(pkgDir)
       IN IF r.error # ""
          THEN /\ ppc' = "load_failed"
               /\ pkgResult' = Err(r.error, "")
               /\ UNCHANGED package
          ELSE /\ ppc' = "package"
               /\ package' = r.package
               /\ UNCHANGED pkgResult
    /\ UNCHANGED <<pkgDir, pkgCall, engine>>
    /\ UNCHANGED <<cvars, rvars, fvars>>

\* Package::compile(input, release)
package_compile ==
    /\ ppc = "package"
    /\ \E input \in {None} \cup {Some(v) : v \in Values}, answer \in EngineResults :
          LET checked == validate_input(package.schema, input)
          IN /\ pkgCall' = input
             /\ IF checked # ""
                THEN /\ pkgResult' = Err(checked, "")
                     /\ UNCHANGED engine
                ELSE /\ engine' = [reached |-> TRUE,
                                   input |-> IF input = None THEN "null"
                                             ELSE Unwrap(input)]
                     /\ pkgResult' = answer
    /\ ppc' = "compiled"
    /\ UNCHANGED <<pkgDir, package>>
    /\ UNCHANGED <<cvars, rvars, fvars>>

InitP ==
    /\ ppc = "dir"
    /\ pkgDir \in PackageDirs
    /\ package = NoPackage
    /\ pkgCall = None
    /\ engine = NotReached
    /\ pkgResult = NoResult

\* The package directory of the other specifications: a plain directory.
IdleP ==
    /\ ppc = "dir"
    /\ pkgDir = [archive |-> "none", spec |-> "ok",
                 schema |-> SchemaFile("missing", {}), example |-> "missing",
                 main |-> TRUE]
    /\ package = NoPackage
    /\ pkgCall = None
    /\ engine = NotReached
    /\ pkgResult = NoResult

\* --------------------------------------------------------- specifications
\* Compiler: registrations, then compile.
Init == InitC /\ InitR /\ InitF /\ IdleP
Next ==
    \/ prop
    \/ extension
    \/ validator
    \/ compile
Spec == Init /\ [][Next]_vars

\* WorkspaceBuilder: the setters, then Compiler::try_from.
InitWorkspace == InitW /\ InitR /\ InitF /\ IdleP
NextWorkspace ==
    \/ set_root
    \/ set_entrypoint
    \/ set_lib
    \/ set_vendor
    \/ try_from
SpecWorkspace == InitWorkspace /\ [][NextWorkspace]_vars

\* The resolver chain of a compile.
InitResolve == InitC /\ InitR /\ InitF /\ IdleP
NextResolve ==
    \/ write_file
    \/ resolve_import
SpecResolve == InitResolve /\ [][NextResolve]_vars

\* The File function.
InitFile == InitC /\ InitR /\ InitF /\ IdleP
NextFile ==
    \/ create_files_dir
    \/ write_template
    \/ break_traversal
    \/ set_input
    \/ generate
    \/ call_handler
SpecFile == InitFile /\ [][NextFile]_vars

\* Package: try_from a root, then compile.
InitPackage == InitC /\ InitR /\ InitF /\ InitP
NextPackage ==
    \/ load_package
    \/ package_compile
SpecPackage == InitPackage /\ [][NextPackage]_vars

\* ------------------------------------------------------------- the claims
AllPass == \A i \in 1..Len(validators) : validators[i]
Registered(map, n) == {e \in map : e[1] = n}
Count(ev, n) == Cardinality({i \in 1..Len(log) : log[i].ev = ev /\ log[i].name = n})
Position(names, n) == CHOOSE i \in 1..Len(names) : names[i] = n

\* C1: compile calls the validators in registration order and returns at the
\* first false one with InvalidInput: the log then holds exactly the calls of
\* validators 1..k, k the first false one, so no later validator, no evaluator,
\* no generate and no evaluation, and nothing is bound. With none false, all
\* are called, in order, before anything else.
C1_ValidatorsFailFast ==
    pc = "done" =>
        IF AllPass
        THEN /\ Len(log) > Len(validators)
             /\ \A i \in 1..Len(validators) : log[i] = Event("validator", "", i, TRUE)
             /\ log[Len(validators) + 1].ev = "create_state"
        ELSE LET k == CHOOSE i \in 1..Len(validators) :
                          ~validators[i] /\ \A j \in 1..(i - 1) : validators[j]
             IN /\ result = Err("InvalidInput", "")
                /\ Len(log) = k
                /\ \A i \in 1..k : log[i] = Event("validator", "", i, i # k)
                /\ ext_vars = {}

C1_Witness ==
    /\ pc = "done"
    /\ Len(validators) >= 2
    /\ ~validators[1] /\ validators[2]
    /\ properties # {} /\ extensions # {}
    /\ result = Err("InvalidInput", "")

StageRank(e) ==
    CASE e.ev = "validator" -> 1
      [] e.ev \in {"create_state", "generate", "ext_generate"} -> 2
      [] e.ev = "evaluate" -> 3
      [] e.ev = "manifest" -> 4
      [] e.ev = "parse" -> 5

\* C2: a finished compile went through validate, evaluate, manifest, parse in
\* that order, each at most once; a stage that failed is the last thing that
\* ran; and the result is the parsed value exactly when parse succeeded, else
\* the one error of the failed stage: InvalidInput (validator), RenderIssue
\* (evaluate, manifest), InvalidOutput (parse).
C2_StagesAndOutcome ==
    pc = "done" =>
        /\ Len(log) > 0
        /\ \A i, j \in 1..Len(log) : i < j => StageRank(log[i]) <= StageRank(log[j])
        /\ \A ev \in {"create_state", "evaluate", "manifest", "parse"} :
              Cardinality({i \in 1..Len(log) : log[i].ev = ev}) <= 1
        /\ \A i \in 1..Len(log) : ~log[i].ok => i = Len(log)
        /\ LET last == log[Len(log)]
           IN IF last.ok
              THEN last.ev = "parse" /\ result = Ok("json")
              ELSE /\ result.kind = "Err" /\ result.value = ""
                   /\ result.error =
                        CASE last.ev = "validator" -> "InvalidInput"
                          [] last.ev \in {"evaluate", "manifest"} -> "RenderIssue"
                          [] last.ev = "parse" -> "InvalidOutput"

C2_Witness ==
    /\ pc = "done"
    /\ AllPass
    /\ log[Len(log)] = Event("manifest", "", 0, FALSE)
    /\ result.error = "RenderIssue"

\* C4: when the validators pass, compile binds exactly the five names
\* kct.io/package, kct.io/release, kct.io/input, kct.io/include, kct.io/file,
\* each once: a registered property to its generated value, a registered
\* extension to its callable, an unregistered name to null; and the compile
\* goes on to evaluate the entrypoint.
C4_FiveExtVars ==
    (pc = "done" /\ AllPass) =>
        /\ {b[1] : b \in ext_vars} =
              {"kct.io/package", "kct.io/release", "kct.io/input", "kct.io/include",
               "kct.io/file"}
        /\ \A a, b \in ext_vars : a[1] = b[1] => a = b
        /\ \A n \in Range(PropertyNames) :
              /\ Registered(properties, n) = {} => <<"kct.io/" \o n, ValNull>> \in ext_vars
              /\ \A e \in Registered(properties, n) :
                    <<"kct.io/" \o n, ValPlain(e[2])>> \in ext_vars
        /\ \A n \in Range(ExtensionNames) :
              /\ Registered(extensions, n) = {} => <<"kct.io/" \o n, ValNull>> \in ext_vars
              /\ \A e \in Registered(extensions, n) :
                    <<"kct.io/" \o n, ValFunc(e[2])>> \in ext_vars
        /\ \E i \in 1..Len(log) : log[i].ev = "evaluate"

C4_Witness ==
    /\ pc = "done" /\ AllPass
    /\ Registered(properties, "package") # {}
    /\ Registered(properties, "release") = {}
    /\ Registered(extensions, "file") # {}
    /\ Registered(extensions, "include") = {}
    /\ <<"kct.io/release", ValNull>> \in ext_vars
    /\ result = Ok("json")

\* C5: Compiler::try_from fails, with InvalidInput, exactly when root or
\* entrypoint is unset, or lib or vendor is unset with no root to default it
\* from; otherwise the workspace has the root and entrypoint given, the lib
\* and vendor given if any, and root/lib and root/vendor for those not given.
C5_WorkspaceDefaults ==
    pc \in {"configured", "build_failed"} =>
        LET b == builder
            unset == \/ b.root = None
                     \/ b.entrypoint = None
                     \/ (b.lib = None /\ b.root = None)
                     \/ (b.vendor = None /\ b.root = None)
        IN /\ (pc = "build_failed") <=> unset
           /\ pc = "build_failed" => (result = Err("InvalidInput", "") /\ workspace = None)
           /\ pc = "configured" =>
                 /\ workspace # None
                 /\ Unwrap(workspace).root = Unwrap(b.root)
                 /\ Unwrap(workspace).entrypoint = Unwrap(b.entrypoint)
                 /\ Unwrap(workspace).lib =
                       IF b.lib = None THEN Unwrap(b.root) \o <<"lib">> ELSE Unwrap(b.lib)
                 /\ Unwrap(workspace).vendor =
                       IF b.vendor = None THEN Unwrap(b.root) \o <<"vendor">>
                       ELSE Unwrap(b.vendor)

C5_Witness ==
    /\ pc = "configured"
    /\ builder.root = Some(<<"home", "pkg">>)
    /\ builder.lib # None /\ builder.vendor = None
    /\ Unwrap(workspace).vendor = <<"home", "pkg", "vendor">>
    /\ Unwrap(workspace).lib = Unwrap(builder.lib)

OnePerName(map) == \A a, b \in map : a[1] = b[1] => a = b
OtherNames(map, n) == {e \in map : e[1] # n}

C7_Step ==
    /\ OnePerName(properties') /\ OnePerName(extensions')
    /\ lastOp'.op = "prop" =>
          /\ <<lastOp'.name, lastOp'.gen>> \in properties'
          /\ OtherNames(properties', lastOp'.name) = OtherNames(properties, lastOp'.name)
          /\ extensions' = extensions
    /\ lastOp'.op = "extension" =>
          /\ <<lastOp'.name, lastOp'.ext>> \in extensions'
          /\ OtherNames(extensions', lastOp'.name) = OtherNames(extensions, lastOp'.name)
          /\ properties' = properties
    /\ lastOp'.op \notin {"prop", "extension"} =>
          properties' = properties /\ extensions' = extensions
    /\ lastOp'.op \in {"prop", "extension"} =>
          workspace' = workspace /\ validators' = validators

\* C7: every step leaves at most one generator per name in each registry; a
\* prop or extension call leaves the generator it was given under its name
\* (replacing the one that was there) and changes no other name, nor the other
\* registry, the workspace or the validators; no other call changes a
\* registry. So each name holds the generator registered for it last.
C7_LastRegistrationWins == [][C7_Step]_vars

C7_Witness ==
    /\ lastOp.op = "prop" /\ lastOp.replaced
    /\ <<lastOp.name, lastOp.gen>> \in properties
    /\ Cardinality(properties) = Len(PropertyNames)
    /\ Cardinality(extensions) = Len(ExtensionNames)
    /\ validators # <<>>

\* C8: in a finished compile each registered property was generated exactly
\* once (and an unregistered one never), the generate calls come in the order
\* package, release, input, and all of them after every validator passed;
\* whatever the registered extensions do in their generate.
C8_GenerateOnce ==
    pc = "done" =>
        /\ \A n \in Range(PropertyNames) :
              Count("generate", n) =
                  IF AllPass /\ Registered(properties, n) # {} THEN 1 ELSE 0
        /\ \A i, j \in 1..Len(log) :
              (i < j /\ log[i].ev = "generate" /\ log[j].ev = "generate") =>
                  Position(PropertyNames, log[i].name) < Position(PropertyNames, log[j].name)
        /\ \A i \in 1..Len(log) :
              log[i].ev = "generate" =>
                  (AllPass /\ i > Len(validators)
                     /\ \A j \in 1..Len(validators) : log[j].ev = "validator")

\* ---- the resolver chain
InVendor(import) == (ResolveWorkspace.root \o <<"vendor">> \o import) \in disk
InLib(import) == (ResolveWorkspace.root \o <<"lib">> \o import) \in disk
Beside(from, import) == (parent(from) \o import) \in disk

\* C3: an import of kct.io gets the embedded library whatever is on disk;
\* any other import gets the file beside the importer if there is one, else
\* the one under vendor if there is one, else the one under lib, else nothing.
C3_ResolverPrecedence ==
    resolved # NoImport =>
        LET from == resolved.from
            import == resolved.import
            answer == resolved.answer
        IN IF import = <<"kct.io">>
           THEN answer = Found(<<"kct.io">>, TRUE)
           ELSE IF Beside(from, import)
           THEN answer = Found(parent(from) \o import, FALSE)
           ELSE IF InVendor(import)
           THEN answer = Found(<<"pkg", "vendor">> \o import, FALSE)
           ELSE IF InLib(import)
           THEN answer = Found(<<"pkg", "lib">> \o import, FALSE)
           ELSE answer = Declined

C3_Witness ==
    /\ resolved.import = <<"kct.io">>
    /\ resolved.from = Entrypoint
    /\ Beside(Entrypoint, <<"kct.io">>)
    /\ InVendor(<<"kct.io">>) /\ InLib(<<"kct.io">>)
    /\ Beside(Entrypoint, <<"util.libsonnet">>) /\ InLib(<<"util.libsonnet">>)
    /\ resolved.answer.embedded

\* ---- the File function
\* Lexicographic order of two sequences under the order lt of their elements.
LexLess(a, b, lt(_, _)) ==
    \E k \in 1..Len(b) :
        /\ \A i \in 1..(k - 1) : i <= Len(a) /\ a[i] = b[i]
        /\ k = Len(a) + 1 \/ (k <= Len(a) /\ lt(a[k], b[k]))
NatLess(x, y) == x < y
ComponentLexLess(a, b) == LexLess(a, b, NatLess)
PathLexLess(p, q) == LexLess(p, q, ComponentLexLess)

GlobCalled == fpc = "generated" /\ fileCall.params.present /\ fileCall.params.string
MatchedFiles == {f \in files : glob_match(fileCall.params.glob, f.name)}
MatchedPaths == {FileRoot \o <<TEMPLATES_FOLDER>> \o <<f.name>> : f \in MatchedFiles}
Expandable == filesDir /\ fileCall.params.glob.valid /\ ~walkFails
\* The items are the renderings of exactly the matched paths, in path order.
InPathOrder(items) ==
    /\ Len(items) = Cardinality(MatchedPaths)
    /\ {items[i][2] : i \in 1..Len(items)} = MatchedPaths
    /\ \A i \in 1..Len(items) : items[i] = <<"rendered", items[i][2], captured>>
    /\ \A i, j \in 1..Len(items) : i < j => PathLexLess(items[i][2], items[j][2])

\* C6 as stated: the result is fixed by the matched set alone.
C6_FixedByMatchSet ==
    GlobCalled =>
        IF ~filesDir
        THEN fileResult = FileErr("No files folder to search for templates", None)
        ELSE Expandable =>
             /\ MatchedPaths = {} =>
                   (fileResult.kind = "error" /\ fileResult.glob = Some(fileCall.params.glob))
             /\ Cardinality(MatchedPaths) = 1 =>
                   (fileResult.kind = "string" /\ InPathOrder(fileResult.items))
             /\ Cardinality(MatchedPaths) > 1 =>
                   (fileResult.kind = "array" /\ InPathOrder(fileResult.items))

AllReadable == \A f \in MatchedFiles : f.state # "unreadable"
AllRender == \A f \in MatchedFiles : f.state = "ok"
ContextInput == captured = "null" \/ captured \in Objects

\* C6, amended: a missing files directory gives its error whatever the glob.
\* A call returns a value only when at least one file matched and every
\* matched file was read and rendered: a string for one match, for more an
\* array in path order whatever the iteration order. With a null or object
\* Input and every matched file read and rendered, no match gives the error
\* naming the glob and a match gives the value. An unreadable matched file
\* gives a read error; a non-object Input then makes the call panic; else a
\* matched file that does not render gives a render error.
C6_ShapeAndOrder ==
    GlobCalled =>
        /\ ~filesDir =>
              fileResult = FileErr("No files folder to search for templates", None)
        /\ fileResult.kind \in {"string", "array"} =>
              /\ Expandable /\ AllRender /\ MatchedPaths # {}
              /\ fileResult.kind = "string" <=> Cardinality(MatchedPaths) = 1
              /\ InPathOrder(fileResult.items)
        /\ (Expandable /\ AllRender /\ ContextInput) =>
              IF MatchedPaths = {}
              THEN fileResult =
                      FileErr("No template found for glob", Some(fileCall.params.glob))
              ELSE fileResult.kind \in {"string", "array"}
        /\ (Expandable /\ ~AllReadable) =>
              fileResult = FileErr("Unable to read templates", None)
        /\ (Expandable /\ AllReadable /\ ~ContextInput) => fileResult.kind = "panic"
        /\ (Expandable /\ AllReadable /\ ContextInput /\ ~AllRender) =>
              fileResult = FileErr("Unable to compile templates", None)

C6_Witness ==
    /\ GlobCalled
    /\ fileResult.kind = "array"
    /\ Len(fileResult.items) >= 3
    /\ \E i, j \in 1..Len(fileCall.entries) :
          i < j /\ PathLexLess(fileCall.entries[j], fileCall.entries[i])
    /\ captured \in Objects

\* C9: a call of the handler returns a JSON value or an error string, never a
\* panic, whatever the arguments, the Input and the files directory.
C9_NeverPanics == fileResult.kind \in {"none", "string", "array", "error"}

\* ---- Package
\* C10: Package::compile reaches the engine exactly when there is no schema
\* and no input, or a schema and an object input it accepts; the engine then
\* receives null, respectively that object; otherwise compile returns
\* NoSchema (input, no schema), NoInput (schema, no input) or InvalidInput
\* and the engine is not reached.
C10_EngineInput ==
    ppc = "compiled" =>
        LET schema == package.schema
            passes == \/ schema = None /\ pkgCall = None
                      \/ /\ schema # None /\ pkgCall # None
                         /\ Unwrap(pkgCall) \in {"object1", "object2"}
                         /\ Unwrap(pkgCall) \in Unwrap(schema)
        IN /\ engine.reached <=> passes
           /\ engine.reached =>
                 /\ engine.input = IF pkgCall = None THEN "null" ELSE Unwrap(pkgCall)
                 /\ engine.input \in {"null", "object1", "object2"}
                 /\ pkgResult \in EngineResults
           /\ ~engine.reached =>
                 pkgResult = Err(IF schema = None THEN "NoSchema"
                                 ELSE IF pkgCall = None THEN "NoInput"
                                 ELSE "InvalidInput", "")

C10_Witness ==
    /\ ppc = "compiled"
    /\ package.schema # None
    /\ pkgCall = Some("array")
    /\ "array" \in Unwrap(package.schema)
    /\ ~engine.reached
    /\ pkgResult = Err("InvalidInput", "")

====
